---- MODULE Spec2Model ----
(***************************************************************************)
(* TaskManager (valuecell/core/task/manager.py): an in-memory registry of  *)
(* tasks keyed by task_id, guarded by one asyncio.Lock.                    *)
(*                                                                         *)
(* Every coroutine that calls a method of the manager is a process.  A     *)
(* method is split at its statements: the call, the acquisition of the     *)
(* lock (`async with self._lock`), the statements of the body, and the     *)
(* release of the lock when the `async with` block is left.  The model     *)
(* lets the processes interleave at each of these points, which contains   *)
(* every schedule the event loop can produce.                              *)
(*                                                                         *)
(* Task (valuecell/core/task/models.py) is not part of the sources at      *)
(* hand; its hooks start/complete/fail/cancel/is_finished are modelled     *)
(* from the specification: each sets the status it is named after.         *)
(***************************************************************************)
EXTENDS Integers, Sequences, FiniteSets, TLC

\* ---- bounds of the model ----
MaxCalls == 2        \* method calls made in one behaviour
MaxClock == 1        \* largest reading of datetime.now()

Procs == {"p1", "p2"}
TaskIds == {"t1", "t2"}
Convs == {"c1", "c2"}
Msgs == {"e1"}

NoProc == "free"
NoId == "none"

\* ---- TaskStatus and Task (models.py) ----
PENDING == "PENDING"
RUNNING == "RUNNING"
COMPLETED == "COMPLETED"
FAILED == "FAILED"
CANCELLED == "CANCELLED"

TaskStatus == {PENDING, RUNNING, COMPLETED, FAILED, CANCELLED}

Finished == {COMPLETED, FAILED, CANCELLED}

\* `None` where a Task is expected
NoTask ==
  [task_id |-> NoId, conversation_id |-> NoId, status |-> "none",
   updated_at |-> 0, error_message |-> "none"]

\* the Task objects a caller hands to update_task: new or already finished
InputStatus == {PENDING, COMPLETED}

InputTasks ==
  [task_id : TaskIds, conversation_id : Convs, status : InputStatus,
   updated_at : {0}, error_message : {"none"}]

is_finished(t) == t.status \in Finished

start(t) == [t EXCEPT !.status = RUNNING]

complete(t) == [t EXCEPT !.status = COMPLETED]

fail(t, error_message) ==
  [t EXCEPT !.status = FAILED, !.error_message = error_message]

cancel(t) == [t EXCEPT !.status = CANCELLED]

\* ---- the store: a dict task_id -> Task, which keeps insertion order ----
EmptyDict == [dict |-> [k \in {} |-> NoTask], keys |-> <<>>]

\* self._tasks.get(task_id)
_get_task(d, task_id) ==
  IF task_id \in DOMAIN d.dict THEN d.dict[task_id] ELSE NoTask

\* self._tasks[task.task_id] = task
_update_task_no_lock(d, t) ==
  [dict |-> [k \in (DOMAIN d.dict) \cup {t.task_id} |->
               IF k = t.task_id THEN t ELSE d.dict[k]],
   keys |-> IF t.task_id \in DOMAIN d.dict THEN d.keys
            ELSE Append(d.keys, t.task_id)]

\* list(self._tasks.values())
RECURSIVE ValuesFrom(_, _)
ValuesFrom(d, ks) ==
  IF ks = <<>> THEN <<>>
  ELSE <<d.dict[Head(ks)]>> \o ValuesFrom(d, Tail(ks))

values(d) == ValuesFrom(d, d.keys)

\* [t for t in ts if t.conversation_id == conversation_id]
RECURSIVE InConversation(_, _)
InConversation(ts, conversation_id) ==
  IF ts = <<>> THEN <<>>
  ELSE IF Head(ts).conversation_id = conversation_id
       THEN <<Head(ts)>> \o InConversation(Tail(ts), conversation_id)
       ELSE InConversation(Tail(ts), conversation_id)

\* ---- the calls ----
Call(kind, t, task_id, conversation_id, error_message) ==
  [kind |-> kind, task |-> t, task_id |-> task_id,
   conversation_id |-> conversation_id, error_message |-> error_message]

NoCall == Call("none", NoTask, NoId, NoId, "none")

Transitions == {"start_task", "complete_task", "fail_task", "cancel_task"}

Calls ==
  {Call("update_task", t, NoId, NoId, "none") : t \in InputTasks}
  \cup {Call(k, NoTask, i, NoId, "none") :
          k \in {"start_task", "complete_task", "cancel_task"}, i \in TaskIds}
  \cup {Call("fail_task", NoTask, i, NoId, m) : i \in TaskIds, m \in Msgs}
  \cup {Call("cancel_conversation_tasks", NoTask, NoId, c, "none") : c \in Convs}

\* ---- the methods run one after another (no interleaving) ----
\* for task in tasks: if not task.is_finished(): cancel, write, count
RECURSIVE CancelEach(_, _, _)
CancelEach(d, ts, n) ==
  IF ts = <<>> THEN [store |-> d, ret |-> "Count", count |-> n]
  ELSE IF ~is_finished(Head(ts))
       THEN CancelEach(_update_task_no_lock(d, cancel(Head(ts))), Tail(ts), n + 1)
       ELSE CancelEach(d, Tail(ts), n)

Transit(d, c, refused, t2) ==
  IF _get_task(d, c.task_id) = NoTask \/ refused
  THEN [store |-> d, ret |-> "False", count |-> 0]
  ELSE [store |-> _update_task_no_lock(d, t2), ret |-> "True", count |-> 0]

\* the outcome of call c, executed alone on store d, reading the clock as stamp
Sequential(d, c, stamp) ==
  LET t == _get_task(d, c.task_id) IN
  CASE c.kind = "update_task" ->
         [store |-> _update_task_no_lock(d, [c.task EXCEPT !.updated_at = stamp]),
          ret |-> "None", count |-> 0]
    [] c.kind = "start_task" -> Transit(d, c, t.status # PENDING, start(t))
    [] c.kind = "complete_task" -> Transit(d, c, is_finished(t), complete(t))
    [] c.kind = "fail_task" ->
         Transit(d, c, is_finished(t), fail(t, c.error_message))
    [] c.kind = "cancel_task" -> Transit(d, c, is_finished(t), cancel(t))
    [] c.kind = "cancel_conversation_tasks" ->
         CancelEach(d, InConversation(values(d), c.conversation_id), 0)

VARIABLES
  _tasks,           \* self._tasks
  _lock,            \* self._lock: the process that holds it, or NoProc
  now,              \* the latest reading of datetime.now()
  calls,            \* number of calls made so far
  pc,               \* per process: where it is in its method
  op,               \* per process: the call it is executing
  task,             \* per process: the parameter or local `task`
  tasks,            \* per process: the local list `tasks` still to visit
  cancelled_count,  \* per process: the local `cancelled_count`
  ret,              \* per process: how its last call ended
  invoked_at,       \* per process: the clock when update_task was called
  entry,            \* per process: self._tasks when it acquired the lock
  hooks,            \* per process: the Task hooks the call has invoked
  serial,           \* self._tasks had the calls run alone, in lock order
  serial_out,       \* per process: the outcome of its call in that run
  log               \* per task id: the status it was last recorded with,
                    \* then the calls that have changed it since, in order

vars ==
  <<_tasks, _lock, now, calls, pc, op, task, tasks, cancelled_count, ret,
    invoked_at, entry, hooks, serial, serial_out, log>>

NoOut == [ret |-> "none", count |-> 0]

\* ---- the stores the manager can be in when the two coroutines start ----
RECURSIVE Recorded(_, _)
Recorded(d, ts) ==
  IF ts = <<>> THEN d
  ELSE Recorded(_update_task_no_lock(d, Head(ts)), Tail(ts))

\* nothing recorded, t1 recorded in c1, or t1 in c1 and then t2 in any
\* conversation (the names of tasks and conversations are interchangeable)
FirstTasks == {t \in InputTasks : t.task_id = "t1" /\ t.conversation_id = "c1"}

SecondTasks == {t \in InputTasks : t.task_id = "t2"}

Stores ==
  {EmptyDict}
  \cup {Recorded(EmptyDict, <<a>>) : a \in FirstTasks}
  \cup {Recorded(EmptyDict, <<a, b>>) : a \in FirstTasks, b \in SecondTasks}

Init ==
  /\ _tasks \in Stores
  /\ _lock = NoProc
  /\ now = 0
  /\ calls = 0
  /\ pc = [p \in Procs |-> "idle"]
  /\ op = [p \in Procs |-> NoCall]
  /\ task = [p \in Procs |-> NoTask]
  /\ tasks = [p \in Procs |-> <<>>]
  /\ cancelled_count = [p \in Procs |-> 0]
  /\ ret = [p \in Procs |-> "none"]
  /\ invoked_at = [p \in Procs |-> 0]
  /\ entry = [p \in Procs |-> EmptyDict]
  /\ hooks = [p \in Procs |-> <<>>]
  /\ serial = _tasks
  /\ serial_out = [p \in Procs |-> NoOut]
  /\ log = [i \in TaskIds |-> IF i \in DOMAIN _tasks.dict
                              THEN <<_tasks.dict[i].status>> ELSE <<>>]

\* the first statement of the body of each method
Body(kind) ==
  CASE kind = "update_task" -> "stamp"
    [] kind \in Transitions -> "get"
    [] kind = "cancel_conversation_tasks" -> "select"

\* the places inside `async with self._lock:`
InBody == {"stamp", "get", "hook", "select", "loop", "exit"}

\* what datetime.now() can return: time does not run backwards
Readings == now..MaxClock

\* a coroutine calls a method of the manager
Invoke(p, c) ==
  /\ pc[p] = "idle"
  /\ calls < MaxCalls
  /\ calls' = calls + 1
  /\ pc' = [pc EXCEPT ![p] = "acquire"]
  /\ op' = [op EXCEPT ![p] = c]
  /\ task' = [task EXCEPT ![p] = c.task]
  /\ cancelled_count' = [cancelled_count EXCEPT ![p] = 0]
  /\ ret' = [ret EXCEPT ![p] = "pending"]
  /\ serial_out' = [serial_out EXCEPT ![p] = NoOut]
  /\ IF c.kind = "update_task"
     THEN \E n \in Readings :
            /\ now' = n
            /\ invoked_at' = [invoked_at EXCEPT ![p] = n]
     ELSE UNCHANGED <<now, invoked_at>>
  /\ UNCHANGED <<_tasks, _lock, tasks, entry, hooks, serial, log>>

\* an acquisition that does not wait for the lock to be free
Acquire_unguarded(p) ==
  /\ pc[p] = "acquire"
  /\ _lock' = p
  /\ pc' = [pc EXCEPT ![p] = Body(op[p].kind)]
  /\ entry' = [entry EXCEPT ![p] = _tasks]
  /\ UNCHANGED <<_tasks, now, calls, op, task, tasks, cancelled_count, ret,
                 invoked_at, hooks, serial, serial_out, log>>

\* async with self._lock: (__aenter__)
Acquire(p) ==
  /\ pc[p] = "acquire"
  /\ _lock = NoProc
  /\ _lock' = p
  /\ pc' = [pc EXCEPT ![p] = Body(op[p].kind)]
  /\ entry' = [entry EXCEPT ![p] = _tasks]
  /\ UNCHANGED <<_tasks, now, calls, op, task, tasks, cancelled_count, ret,
                 invoked_at, hooks, serial, serial_out, log>>

\* acquire() and release() around the body, without try/finally
Release_on_return_only(p) ==
  /\ pc[p] = "exit"
  /\ _lock' = IF ret[p] = "Raised" THEN _lock ELSE NoProc
  /\ pc' = [pc EXCEPT ![p] = "idle"]
  /\ op' = [op EXCEPT ![p] = NoCall]
  /\ task' = [task EXCEPT ![p] = NoTask]
  /\ tasks' = [tasks EXCEPT ![p] = <<>>]
  /\ invoked_at' = [invoked_at EXCEPT ![p] = 0]
  /\ entry' = [entry EXCEPT ![p] = EmptyDict]
  /\ hooks' = [hooks EXCEPT ![p] = <<>>]
  /\ UNCHANGED <<_tasks, now, calls, cancelled_count, ret, serial, serial_out,
                 log>>

\* the async with block is left (__aexit__), by return or by an exception;
\* the locals of the call are gone, its result stays with the caller
Release(p) ==
  /\ pc[p] = "exit"
  /\ _lock' = NoProc
  /\ pc' = [pc EXCEPT ![p] = "idle"]
  /\ op' = [op EXCEPT ![p] = NoCall]
  /\ task' = [task EXCEPT ![p] = NoTask]
  /\ tasks' = [tasks EXCEPT ![p] = <<>>]
  /\ invoked_at' = [invoked_at EXCEPT ![p] = 0]
  /\ entry' = [entry EXCEPT ![p] = EmptyDict]
  /\ hooks' = [hooks EXCEPT ![p] = <<>>]
  /\ LET out == Sequential(serial, op[p], task[p].updated_at) IN
       /\ serial' = IF ret[p] = "Raised" THEN serial ELSE out.store
       /\ serial_out' = [serial_out EXCEPT ![p] =
                           IF ret[p] = "Raised" THEN [ret |-> "Raised", count |-> 0]
                           ELSE [ret |-> out.ret, count |-> out.count]]
  /\ UNCHANGED <<_tasks, now, calls, cancelled_count, ret, log>>

\* `return r` or `raise` inside the async with block
Leave(p, r) ==
  /\ pc' = [pc EXCEPT ![p] = "exit"]
  /\ ret' = [ret EXCEPT ![p] = r]

\* an update_task that writes through a path that takes the lock again
update_task_relocking(p) ==
  /\ pc[p] = "stamp"
  /\ pc' = [pc EXCEPT ![p] = "acquire"]
  /\ UNCHANGED <<_tasks, _lock, now, calls, op, task, tasks, cancelled_count,
                 ret, invoked_at, entry, hooks, serial, serial_out, log>>

\* an update_task that stores the task with the timestamp it came with
update_task_unstamped(p) ==
  /\ pc[p] = "stamp"
  /\ now' = now
  /\ task' = task
  /\ _tasks' = _update_task_no_lock(_tasks, task[p])
  /\ Leave(p, "None")
  /\ UNCHANGED <<_lock, calls, op, tasks, cancelled_count, invoked_at,
                 entry, hooks, serial, serial_out, log>>

\* update_task: task.updated_at = datetime.now(); self._update_task_no_lock(task)
update_task(p) ==
  /\ pc[p] = "stamp"
  /\ \E n \in Readings :
       LET t == [task[p] EXCEPT !.updated_at = n] IN
       /\ now' = n
       /\ task' = [task EXCEPT ![p] = t]
       /\ _tasks' = _update_task_no_lock(_tasks, t)
       /\ log' = [log EXCEPT ![t.task_id] = <<t.status>>]
  /\ Leave(p, "None")
  /\ UNCHANGED <<_lock, calls, op, tasks, cancelled_count, invoked_at,
                 entry, hooks, serial, serial_out>>

\* self._get_task(task_id) as the call of p evaluates it
Requested(p) == _get_task(_tasks, op[p].task_id)

\* task = self._get_task(task_id); if not task or <refused>: return False
Check(p, kind, refused) ==
  /\ pc[p] = "get"
  /\ op[p].kind = kind
  /\ LET t == Requested(p) IN
       /\ task' = [task EXCEPT ![p] = t]
       /\ IF t = NoTask \/ refused
          THEN Leave(p, "False")
          ELSE /\ pc' = [pc EXCEPT ![p] = "hook"]
               /\ ret' = ret
  /\ UNCHANGED <<_tasks, _lock, now, calls, op, tasks, cancelled_count,
                 invoked_at, entry, hooks, serial, serial_out, log>>

\* task.<hook>(); self._update_task_no_lock(task); return True
Apply(p, kind, hook, t2) ==
  /\ pc[p] = "hook"
  /\ op[p].kind = kind
  /\ task' = [task EXCEPT ![p] = t2]
  /\ hooks' = [hooks EXCEPT ![p] = Append(@, <<hook, t2.task_id>>)]
  /\ _tasks' = _update_task_no_lock(_tasks, t2)
  /\ Leave(p, "True")
  /\ log' = [log EXCEPT ![t2.task_id] = Append(@, hook)]
  /\ UNCHANGED <<_lock, now, calls, op, tasks, cancelled_count, invoked_at,
                 entry, serial, serial_out>>

\* a start_task that only refuses finished tasks
NotPending_finished_only(t) == is_finished(t)

NotPending(t) == t.status # PENDING

\* a start_task that calls task.start() before it tests the status
start_task_check_hook_first(p) ==
  /\ pc[p] = "get"
  /\ op[p].kind = "start_task"
  /\ LET t == _get_task(_tasks, op[p].task_id) IN
       /\ task' = [task EXCEPT ![p] = t]
       /\ IF t = NoTask \/ NotPending(t)
          THEN /\ Leave(p, "False")
               /\ _tasks' = IF t = NoTask THEN _tasks
                            ELSE _update_task_no_lock(_tasks, start(t))
          ELSE /\ pc' = [pc EXCEPT ![p] = "hook"]
               /\ ret' = ret
               /\ _tasks' = _tasks
  /\ UNCHANGED <<_lock, now, calls, op, tasks, cancelled_count,
                 invoked_at, entry, hooks, serial, serial_out, log>>

\* a start_task without the status test
start_task_check_untested(p) == Check(p, "start_task", FALSE)

\* a start_task that creates the record it does not find
start_task_check_creating(p) ==
  /\ pc[p] = "get"
  /\ op[p].kind = "start_task"
  /\ LET t == Requested(p)
         made == [NoTask EXCEPT !.task_id = op[p].task_id, !.status = RUNNING]
     IN  /\ task' = [task EXCEPT ![p] = IF t = NoTask THEN made ELSE t]
         /\ _tasks' = IF t = NoTask THEN _update_task_no_lock(_tasks, made)
                      ELSE _tasks
         /\ IF t = NoTask THEN Leave(p, "True")
            ELSE IF NotPending(t) THEN Leave(p, "False")
            ELSE /\ pc' = [pc EXCEPT ![p] = "hook"]
                 /\ ret' = ret
  /\ UNCHANGED <<_lock, now, calls, op, tasks, cancelled_count,
                 invoked_at, entry, hooks, serial, serial_out, log>>

start_task_check(p) == Check(p, "start_task", NotPending(Requested(p)))

\* a start_task that writes back through the stamping path of update_task
start_task_stamping(p) ==
  Apply(p, "start_task", "start", [start(task[p]) EXCEPT !.updated_at = now])

start_task(p) == Apply(p, "start_task", "start", start(task[p]))

\* a complete_task that insists on a running task
complete_task_check_running_only(p) == Check(p, "complete_task", Requested(p).status # RUNNING)

complete_task_check(p) == Check(p, "complete_task", is_finished(Requested(p)))

complete_task(p) == Apply(p, "complete_task", "complete", complete(task[p]))

\* a fail_task without the is_finished test
fail_task_check_unconditional(p) == Check(p, "fail_task", FALSE)

fail_task_check(p) == Check(p, "fail_task", is_finished(Requested(p)))

fail_task(p) ==
  Apply(p, "fail_task", "fail", fail(task[p], op[p].error_message))

\* a cancel_task that tests under the lock and writes after releasing it
cancel_task_check_then_unlock(p) ==
  /\ pc[p] = "get"
  /\ op[p].kind = "cancel_task"
  /\ LET t == _get_task(_tasks, op[p].task_id) IN
       /\ task' = [task EXCEPT ![p] = t]
       /\ IF t = NoTask \/ is_finished(t)
          THEN Leave(p, "False") /\ _lock' = _lock
          ELSE /\ pc' = [pc EXCEPT ![p] = "hook"]
               /\ ret' = ret
               /\ _lock' = NoProc
  /\ UNCHANGED <<_tasks, now, calls, op, tasks, cancelled_count,
                 invoked_at, entry, hooks, serial, serial_out, log>>

\* a cancel_task without the is_finished test
cancel_task_check_untested(p) == Check(p, "cancel_task", FALSE)

cancel_task_check(p) == Check(p, "cancel_task", is_finished(Requested(p)))

\* a cancel_task that evicts the cancelled task from the store
cancel_task_evicting(p) ==
  /\ pc[p] = "hook"
  /\ op[p].kind = "cancel_task"
  /\ task' = [task EXCEPT ![p] = cancel(task[p])]
  /\ hooks' = [hooks EXCEPT ![p] = Append(@, <<"cancel", task[p].task_id>>)]
  /\ _tasks' =
       [dict |-> [k \in DOMAIN _tasks.dict \ {task[p].task_id} |-> _tasks.dict[k]],
        keys |-> SelectSeq(_tasks.keys, LAMBDA k : k # task[p].task_id)]
  /\ Leave(p, "True")
  /\ UNCHANGED <<_lock, now, calls, op, tasks, cancelled_count, invoked_at,
                 entry, serial, serial_out, log>>

cancel_task(p) == Apply(p, "cancel_task", "cancel", cancel(task[p]))

\* a selection under a lock of its own, released before the loop
cancel_conversation_tasks_select_then_unlock(p) ==
  /\ pc[p] = "select"
  /\ tasks' = [tasks EXCEPT ![p] =
                 InConversation(values(_tasks), op[p].conversation_id)]
  /\ cancelled_count' = [cancelled_count EXCEPT ![p] = 0]
  /\ pc' = [pc EXCEPT ![p] = "loop"]
  /\ _lock' = NoProc
  /\ UNCHANGED <<_tasks, now, calls, op, task, ret, invoked_at, entry,
                 hooks, serial, serial_out, log>>

\* a selection without the conversation filter
cancel_conversation_tasks_select_all(p) ==
  /\ pc[p] = "select"
  /\ tasks' = [tasks EXCEPT ![p] = values(_tasks)]
  /\ cancelled_count' = [cancelled_count EXCEPT ![p] = 0]
  /\ pc' = [pc EXCEPT ![p] = "loop"]
  /\ UNCHANGED <<_tasks, _lock, now, calls, op, task, ret, invoked_at, entry,
                 hooks, serial, serial_out, log>>

\* tasks = [t for t in self._tasks.values() if ...]; cancelled_count = 0
cancel_conversation_tasks_select(p) ==
  /\ pc[p] = "select"
  /\ tasks' = [tasks EXCEPT ![p] =
                 InConversation(values(_tasks), op[p].conversation_id)]
  /\ cancelled_count' = [cancelled_count EXCEPT ![p] = 0]
  /\ pc' = [pc EXCEPT ![p] = "loop"]
  /\ UNCHANGED <<_tasks, _lock, now, calls, op, task, ret, invoked_at, entry,
                 hooks, serial, serial_out, log>>

\* a loop that counts every task it visits
cancel_conversation_tasks_count_all(p) ==
  /\ pc[p] = "loop"
  /\ IF tasks[p] = <<>>
     THEN /\ Leave(p, "Count")
          /\ UNCHANGED <<_tasks, task, tasks, cancelled_count, hooks, log>>
     ELSE LET t == Head(tasks[p]) IN
          /\ tasks' = [tasks EXCEPT ![p] = Tail(@)]
          /\ UNCHANGED <<pc, ret>>
          /\ cancelled_count' = [cancelled_count EXCEPT ![p] = @ + 1]
          /\ IF ~is_finished(t)
             THEN /\ task' = [task EXCEPT ![p] = cancel(t)]
                  /\ hooks' = [hooks EXCEPT ![p] = Append(@, <<"cancel", t.task_id>>)]
                  /\ _tasks' = _update_task_no_lock(_tasks, cancel(t))
                  /\ log' = [log EXCEPT ![t.task_id] = Append(@, "batch")]
             ELSE /\ task' = [task EXCEPT ![p] = t]
                  /\ UNCHANGED <<_tasks, hooks, log>>
  /\ UNCHANGED <<_lock, now, calls, op, invoked_at, entry, serial, serial_out>>

\* a loop without the is_finished test
cancel_conversation_tasks_untested(p) ==
  /\ pc[p] = "loop"
  /\ IF tasks[p] = <<>>
     THEN /\ Leave(p, "Count")
          /\ UNCHANGED <<_tasks, task, tasks, cancelled_count, hooks, log>>
     ELSE LET t == Head(tasks[p]) IN
          /\ tasks' = [tasks EXCEPT ![p] = Tail(@)]
          /\ UNCHANGED <<pc, ret>>
          /\ task' = [task EXCEPT ![p] = cancel(t)]
          /\ hooks' = [hooks EXCEPT ![p] = Append(@, <<"cancel", t.task_id>>)]
          /\ _tasks' = _update_task_no_lock(_tasks, cancel(t))
          /\ cancelled_count' = [cancelled_count EXCEPT ![p] = @ + 1]
          /\ log' = [log EXCEPT ![t.task_id] = Append(@, "batch")]
  /\ UNCHANGED <<_lock, now, calls, op, invoked_at, entry, serial, serial_out>>

\* a loop that passes over COMPLETED and FAILED tasks only
cancel_conversation_tasks_recancelling(p) ==
  /\ pc[p] = "loop"
  /\ IF tasks[p] = <<>>
     THEN /\ Leave(p, "Count")
          /\ UNCHANGED <<_tasks, task, tasks, cancelled_count, hooks, log>>
     ELSE LET t == Head(tasks[p]) IN
          /\ tasks' = [tasks EXCEPT ![p] = Tail(@)]
          /\ UNCHANGED <<pc, ret>>
          /\ IF t.status \notin {COMPLETED, FAILED}
             THEN /\ task' = [task EXCEPT ![p] = cancel(t)]
                  /\ hooks' = [hooks EXCEPT ![p] = Append(@, <<"cancel", t.task_id>>)]
                  /\ _tasks' = _update_task_no_lock(_tasks, cancel(t))
                  /\ cancelled_count' = [cancelled_count EXCEPT ![p] = @ + 1]
                  /\ log' = [log EXCEPT ![t.task_id] = Append(@, "batch")]
             ELSE /\ task' = [task EXCEPT ![p] = t]
                  /\ UNCHANGED <<_tasks, cancelled_count, hooks, log>>
  /\ UNCHANGED <<_lock, now, calls, op, invoked_at, entry, serial, serial_out>>

\* one round of `for task in tasks:`, or `return cancelled_count` after the last
cancel_conversation_tasks(p) ==
  /\ pc[p] = "loop"
  /\ IF tasks[p] = <<>>
     THEN /\ Leave(p, "Count")
          /\ UNCHANGED <<_tasks, task, tasks, cancelled_count, hooks, log>>
     ELSE LET t == Head(tasks[p]) IN
          /\ tasks' = [tasks EXCEPT ![p] = Tail(@)]
          /\ UNCHANGED <<pc, ret>>
          /\ IF ~is_finished(t)
             THEN /\ task' = [task EXCEPT ![p] = cancel(t)]
                  /\ hooks' = [hooks EXCEPT ![p] = Append(@, <<"cancel", t.task_id>>)]
                  /\ _tasks' = _update_task_no_lock(_tasks, cancel(t))
                  /\ cancelled_count' = [cancelled_count EXCEPT ![p] = @ + 1]
                  /\ log' = [log EXCEPT ![t.task_id] = Append(@, "batch")]
             ELSE /\ task' = [task EXCEPT ![p] = t]
                  /\ UNCHANGED <<_tasks, cancelled_count, hooks, log>>
  /\ UNCHANGED <<_lock, now, calls, op, invoked_at, entry, serial, serial_out>>

\* a raise that puts back the store the call found
hook_raises_rollback(p) ==
  /\ \/ pc[p] = "hook"
     \/ pc[p] = "loop" /\ tasks[p] # <<>> /\ ~is_finished(Head(tasks[p]))
  /\ _tasks' = entry[p]
  /\ Leave(p, "Raised")
  /\ UNCHANGED <<_lock, now, calls, op, task, tasks, cancelled_count,
                 invoked_at, entry, hooks, serial, serial_out, log>>

\* a Task hook raises: the exception leaves the async with block
hook_raises(p) ==
  /\ \/ pc[p] = "hook"
     \/ pc[p] = "loop" /\ tasks[p] # <<>> /\ ~is_finished(Head(tasks[p]))
  /\ Leave(p, "Raised")
  /\ UNCHANGED <<_tasks, _lock, now, calls, op, task, tasks, cancelled_count,
                 invoked_at, entry, hooks, serial, serial_out, log>>

Next ==
  \/ \E p \in Procs, c \in Calls : Invoke(p, c)
  \/ \E p \in Procs : Acquire(p)
  \/ \E p \in Procs : Release(p)
  \/ \E p \in Procs : update_task(p)
  \/ \E p \in Procs : start_task_check(p)
  \/ \E p \in Procs : start_task(p)
  \/ \E p \in Procs : complete_task_check(p)
  \/ \E p \in Procs : complete_task(p)
  \/ \E p \in Procs : fail_task_check(p)
  \/ \E p \in Procs : fail_task(p)
  \/ \E p \in Procs : cancel_task_check(p)
  \/ \E p \in Procs : cancel_task(p)
  \/ \E p \in Procs : cancel_conversation_tasks_select(p)
  \/ \E p \in Procs : cancel_conversation_tasks(p)

\* the hooks of Task as the specification describes them: they never fail
Spec == Init /\ [][Next]_vars

NextRaising ==
  \/ Next
  \/ \E p \in Procs : hook_raises(p)

\* the same with hooks that may raise
SpecRaising == Init /\ [][NextRaising]_vars

\* a statement of process p inside `async with self._lock:`, or its release
Step(p) ==
  \/ Release(p)
  \/ update_task(p)
  \/ start_task_check(p)
  \/ start_task(p)
  \/ complete_task_check(p)
  \/ complete_task(p)
  \/ fail_task_check(p)
  \/ fail_task(p)
  \/ cancel_task_check(p)
  \/ cancel_task(p)
  \/ cancel_conversation_tasks_select(p)
  \/ cancel_conversation_tasks(p)

\* the event loop runs a coroutine that can run (the body has no await), and
\* asyncio.Lock wakes its waiters in the order in which they came
Fairness ==
  \A p \in Procs : WF_vars(Step(p)) /\ SF_vars(Acquire(p))

FairSpec == Spec /\ Fairness

TypeOK ==
  /\ _lock \in Procs \cup {NoProc}
  /\ now \in 0..MaxClock
  /\ calls \in 0..MaxCalls
  /\ DOMAIN _tasks.dict \subseteq TaskIds
  /\ DOMAIN log = TaskIds

\* ---- what the claims speak of ----
\* the record stored under task_id when p acquired the lock, and now
Before(p, task_id) == _get_task(entry[p], task_id)

Stored(task_id) == _get_task(_tasks, task_id)

Unfinished == {PENDING, RUNNING}

\* p has executed `return` of a call of this kind and still holds the lock
Returned(p, kinds) == pc[p] = "exit" /\ op[p].kind \in kinds

\* the task ids on which the call of p has invoked a hook
Hooked(p) == {hooks[p][i][2] : i \in 1..Len(hooks[p])}

\* the status complete_task, fail_task, cancel_task are to leave
Target(kind) ==
  CASE kind = "complete_task" -> COMPLETED
    [] kind = "fail_task" -> FAILED
    [] kind = "cancel_task" -> CANCELLED

\* the tasks of conversation c in store d
Matching(d, c) == {i \in DOMAIN d.dict : d.dict[i].conversation_id = c}

\* C1: start_task returns True exactly when a record for the id exists with
\* status PENDING at the acquisition of the lock, and False otherwise; after
\* True the stored status is RUNNING.
C1_StartIffPending ==
  \A p \in Procs :
    Returned(p, {"start_task"}) =>
      /\ ret[p] \in {"True", "False"}
      /\ ret[p] = "True" <=>
           /\ op[p].task_id \in DOMAIN entry[p].dict
           /\ Before(p, op[p].task_id).status = PENDING
      /\ ret[p] = "True" => Stored(op[p].task_id).status = RUNNING

C1_Witness ==
  \E p \in Procs :
    /\ Returned(p, {"start_task"})
    /\ Before(p, op[p].task_id).status = PENDING
    /\ ret[p] = "True"
    /\ Stored(op[p].task_id).status = RUNNING

\* C2: complete_task, fail_task and cancel_task return True exactly when a
\* record for the id exists with status PENDING or RUNNING at the acquisition
\* of the lock; after True the stored status is COMPLETED, FAILED, CANCELLED.
C2_TerminalIffUnfinished ==
  \A p \in Procs :
    Returned(p, {"complete_task", "fail_task", "cancel_task"}) =>
      /\ ret[p] \in {"True", "False"}
      /\ ret[p] = "True" <=>
           /\ op[p].task_id \in DOMAIN entry[p].dict
           /\ Before(p, op[p].task_id).status \in Unfinished
      /\ ret[p] = "True" => Stored(op[p].task_id).status = Target(op[p].kind)

\* a PENDING task is completed without having been RUNNING
C2_Witness ==
  \E p \in Procs :
    /\ Returned(p, {"complete_task"})
    /\ Before(p, op[p].task_id).status = PENDING
    /\ ret[p] = "True"
    /\ Stored(op[p].task_id).status = COMPLETED

\* C3: a task stored as COMPLETED, FAILED or CANCELLED when a call acquires
\* the lock is refused by start/complete/fail/cancel_task (False), and no
\* call, cancel_conversation_tasks included, invokes a hook on it or alters
\* it; the batch counts only tasks it has invoked cancel() on.
C3_TerminalSticky ==
  \A p \in Procs : \A i \in DOMAIN entry[p].dict :
    (pc[p] \in InBody /\ op[p].kind # "update_task"
       /\ entry[p].dict[i].status \in Finished) =>
      /\ Stored(i) = entry[p].dict[i]
      /\ i \notin Hooked(p)
      /\ (Returned(p, Transitions) /\ op[p].task_id = i) => ret[p] = "False"
      /\ Returned(p, {"cancel_conversation_tasks"}) =>
           cancelled_count[p] = Cardinality(Hooked(p))

\* a batch has passed over a finished task of its conversation
C3_Witness ==
  \E p \in Procs : \E i \in DOMAIN entry[p].dict :
    /\ Returned(p, {"cancel_conversation_tasks"})
    /\ entry[p].dict[i].status \in Finished
    /\ entry[p].dict[i].conversation_id = op[p].conversation_id
    /\ cancelled_count[p] = 1
    /\ Stored(i) = entry[p].dict[i]

\* C4: when start/complete/fail/cancel_task finds its precondition false it
\* returns False and raises nothing, and whenever one of them returns False
\* the store is the one it found and no hook has been invoked.
C4_FailureChangesNothing ==
  \A p \in Procs :
    Returned(p, Transitions) =>
      /\ (\/ op[p].task_id \notin DOMAIN entry[p].dict
          \/ (op[p].kind = "start_task"
                /\ Before(p, op[p].task_id).status # PENDING)
          \/ (op[p].kind # "start_task"
                /\ Before(p, op[p].task_id).status \in Finished))
           => ret[p] = "False"
      /\ ret[p] = "False" => (_tasks = entry[p] /\ hooks[p] = <<>>)

\* start_task on a RUNNING task
C4_Witness ==
  \E p \in Procs :
    /\ Returned(p, {"start_task"})
    /\ Before(p, op[p].task_id).status = RUNNING
    /\ ret[p] = "False"
    /\ _tasks = entry[p]

\* C5: cancel_conversation_tasks(c) returns the number of tasks of
\* conversation c that were PENDING or RUNNING when it acquired the lock, and
\* when it returns every stored task of c is CANCELLED or in the finished
\* status it had.
C5_BatchCount ==
  \A p \in Procs :
    Returned(p, {"cancel_conversation_tasks"}) =>
      LET c == op[p].conversation_id IN
      /\ ret[p] = "Count"
      /\ cancelled_count[p] =
           Cardinality({i \in Matching(entry[p], c) :
                          entry[p].dict[i].status \in Unfinished})
      /\ \A i \in Matching(_tasks, c) :
           \/ Stored(i).status = CANCELLED
           \/ (Stored(i).status \in Finished /\ Stored(i) = Before(p, i))

\* T2 PENDING and T3 COMPLETED in one conversation: 1, CANCELLED, COMPLETED
C5_Witness ==
  \E p \in Procs : \E i, j \in DOMAIN entry[p].dict :
    /\ Returned(p, {"cancel_conversation_tasks"})
    /\ {i, j} \subseteq Matching(entry[p], op[p].conversation_id)
    /\ entry[p].dict[i].status = PENDING
    /\ entry[p].dict[j].status = COMPLETED
    /\ cancelled_count[p] = 1
    /\ Stored(i).status = CANCELLED
    /\ Stored(j).status = COMPLETED

\* C6: at every point of cancel_conversation_tasks(c) the store has the keys,
\* in the order, it had at the acquisition of the lock, and every task of
\* another conversation and every task that was finished is as it was.
C6_BatchFrame ==
  \A p \in Procs :
    (pc[p] \in InBody /\ op[p].kind = "cancel_conversation_tasks") =>
      /\ _tasks.keys = entry[p].keys
      /\ DOMAIN _tasks.dict = DOMAIN entry[p].dict
      /\ \A i \in DOMAIN entry[p].dict :
           (\/ entry[p].dict[i].conversation_id # op[p].conversation_id
            \/ entry[p].dict[i].status \in Finished)
             => Stored(i) = entry[p].dict[i]

\* a batch has cancelled a task and left a PENDING task of another conversation
C6_Witness ==
  \E p \in Procs : \E i \in DOMAIN entry[p].dict :
    /\ Returned(p, {"cancel_conversation_tasks"})
    /\ cancelled_count[p] = 1
    /\ entry[p].dict[i].conversation_id # op[p].conversation_id
    /\ Stored(i).status = PENDING

\* C7: the calls behave as if run one after another in the order in which
\* they held the lock: whenever the lock is free the store is the one that
\* serial run leaves, and every call has returned what it returns there.
C7_Serializable ==
  /\ _lock = NoProc => _tasks = serial
  /\ \A p \in Procs :
       (pc[p] = "idle" /\ ret[p] # "none") =>
         /\ ret[p] = serial_out[p].ret
         /\ ret[p] = "Count" => cancelled_count[p] = serial_out[p].count

\* two coroutines cancel the same unfinished task: one has cancelled it and
\* not yet released the lock, the other has called and waits
C7_Witness ==
  \E p, q \in Procs :
    /\ p # q
    /\ Returned(p, {"cancel_task"})
    /\ ret[p] = "True"
    /\ pc[q] = "acquire"
    /\ op[q] = op[p]

\* C8: from its selection to its return cancel_conversation_tasks(c) is alone
\* in the store: no other call is inside its body, the tasks of c are the
\* ones it selected, each task still to visit is as selected, and the store
\* differs from the one it found only by its own cancellations.
C8_BatchAtomic ==
  \A p \in Procs :
    (pc[p] \in {"select", "loop", "exit"}
       /\ op[p].kind = "cancel_conversation_tasks") =>
      /\ \A q \in Procs \ {p} : pc[q] \notin InBody
      /\ Matching(_tasks, op[p].conversation_id)
           = Matching(entry[p], op[p].conversation_id)
      /\ \A k \in 1..Len(tasks[p]) : Stored(tasks[p][k].task_id) = tasks[p][k]
      /\ \A i \in DOMAIN _tasks.dict :
           \/ (i \in DOMAIN entry[p].dict /\ Stored(i) = Before(p, i))
           \/ (i \in Hooked(p) /\ Stored(i) = cancel(Before(p, i)))

\* the batch is between two cancellations while a coroutine that records a
\* task of the same conversation waits for the lock
C8_Witness ==
  \E p, q \in Procs :
    /\ p # q
    /\ pc[p] = "loop"
    /\ hooks[p] # <<>>
    /\ tasks[p] # <<>>
    /\ pc[q] = "acquire"
    /\ op[q].kind = "update_task"
    /\ op[q].task.conversation_id = op[p].conversation_id

\* a process is inside `async with self._lock:` only while it holds the lock,
\* and the record it tested is still the stored one when it writes
GuardedBody ==
  \A p \in Procs :
    /\ pc[p] \in InBody => _lock = p
    /\ pc[p] = "hook" => task[p] = Stored(op[p].task_id)

\* a step that changes the store is a step of the holder of the lock, inside
\* the body, and no other process moves in it
GuardedWrite ==
  _tasks' # _tasks =>
    /\ _lock \in Procs
    /\ _lock' = _lock
    /\ pc[_lock] \in InBody /\ pc'[_lock] \in InBody
    /\ \A q \in Procs \ {_lock} : pc'[q] = pc[q] /\ task'[q] = task[q]

\* C9: at most one call is inside the guarded body, every test of a status
\* and every write to the store is made by the holder of the lock, and a test
\* and the write that follows it fall in one acquisition.
C9_GuardHeld == []GuardedBody /\ [][GuardedWrite]_vars

\* a call is between its test and its write while another waits for the lock
C9_Witness ==
  \E p, q \in Procs :
    /\ p # q
    /\ pc[p] = "hook"
    /\ _lock = p
    /\ pc[q] = "acquire"

\* C10: a call that has ended, by return or by an exception, does not hold
\* the lock, and when no call is inside the body the lock is free.
C10_GuardReleased ==
  /\ \A p \in Procs : pc[p] \in {"idle", "acquire"} => _lock # p
  /\ (\A p \in Procs : pc[p] \notin InBody) => _lock = NoProc

\* a call ended by an exception of a hook and a later call holds the lock
C10_Witness ==
  \E p, q \in Procs :
    /\ p # q
    /\ pc[p] = "idle"
    /\ ret[p] = "Raised"
    /\ _lock = q
    /\ pc[q] \in InBody

\* C11: update_task(t) returns (None) whatever was stored; the store then maps
\* t.task_id to t, with t's conversation, status and message, in place of any
\* earlier record, every other record is as it was, and the stored updated_at
\* is a reading of the clock not earlier than the call.
C11_RecordStores ==
  \A p \in Procs :
    Returned(p, {"update_task"}) =>
      LET t == op[p].task IN
      /\ ret[p] = "None"
      /\ DOMAIN _tasks.dict = DOMAIN entry[p].dict \cup {t.task_id}
      /\ Stored(t.task_id) = [t EXCEPT !.updated_at = Stored(t.task_id).updated_at]
      /\ Stored(t.task_id).updated_at >= invoked_at[p]
      /\ \A i \in DOMAIN entry[p].dict \ {t.task_id} : Stored(i) = Before(p, i)

\* a PENDING task called in at clock 1 has replaced a COMPLETED record
C11_Witness ==
  \E p \in Procs :
    /\ Returned(p, {"update_task"})
    /\ Before(p, op[p].task.task_id).status = COMPLETED
    /\ Stored(op[p].task.task_id).status = PENDING
    /\ invoked_at[p] = 1
    /\ Stored(op[p].task.task_id).updated_at = 1

\* a step removes no key of the store and keeps the keys in their order
KeysKept ==
  /\ DOMAIN _tasks.dict \subseteq DOMAIN _tasks'.dict
  /\ SubSeq(_tasks'.keys, 1, Len(_tasks.keys)) = _tasks.keys

\* C12: no step of any method removes a task: a task id that is a key of the
\* store is a key of it in every later state.
C12_KeysOnlyGrow == [][KeysKept]_vars

\* update_task has added a second key to a store that held one
C12_Witness ==
  \E p \in Procs :
    /\ Returned(p, {"update_task"})
    /\ Len(entry[p].keys) = 1
    /\ Len(_tasks.keys) = 2
    /\ _tasks.keys[1] = entry[p].keys[1]

\* C13: with hooks that leave the timestamp alone, no step of start_task,
\* complete_task, fail_task, cancel_task or cancel_conversation_tasks changes
\* the updated_at of any task, whether the call succeeds or not, and
\* update_task stores a reading of the clock taken during the call.
C13_OnlyRecordStamps ==
  \A p \in Procs :
    /\ (pc[p] \in InBody /\ op[p].kind # "update_task") =>
         \A i \in DOMAIN entry[p].dict :
           Stored(i).updated_at = entry[p].dict[i].updated_at
    /\ Returned(p, {"update_task"}) =>
         /\ Stored(op[p].task.task_id).updated_at \in invoked_at[p]..now
         /\ task[p].updated_at = Stored(op[p].task.task_id).updated_at

\* a task stamped at 0 has been started at clock 1 and is still stamped 0
C13_Witness ==
  \E p \in Procs :
    /\ Returned(p, {"start_task"})
    /\ ret[p] = "True"
    /\ now = 1
    /\ Stored(op[p].task_id).updated_at = 0

\* the holder of the lock can always take its next step
HolderRuns == \A p \in Procs : pc[p] \in InBody => ENABLED Step(p)

\* C14: under fair scheduling every call that waits for the lock acquires it
\* and returns, and a call inside the body never waits: its next statement
\* can always be executed.
C14_EveryCallReturns ==
  /\ []HolderRuns
  /\ \A p \in Procs : (pc[p] = "acquire") ~> (pc[p] = "idle")

\* a call waits for the lock while the batch of another is in its loop
C14_Witness ==
  \E p, q \in Procs :
    /\ p # q
    /\ pc[p] = "acquire"
    /\ ret[p] = "pending"
    /\ _lock = q
    /\ pc[q] = "loop"
    /\ tasks[q] # <<>>

\* every task is as the batch of p found it, or is that task cancelled, and
\* it is cancelled exactly when the batch has invoked cancel() on it
PerTask ==
  \A p \in Procs :
    (pc[p] \in {"select", "loop", "exit"}
       /\ op[p].kind = "cancel_conversation_tasks") =>
      \A i \in DOMAIN _tasks.dict :
        /\ i \in DOMAIN entry[p].dict
        /\ Stored(i) = IF i \in Hooked(p) THEN cancel(Before(p, i))
                       ELSE Before(p, i)
        /\ i \in Hooked(p) => Before(p, i).status \in Unfinished

\* the step in which a hook raises, and the step that leaves the block after
\* it, keep the store; the latter frees the lock
RaiseKeeps ==
  \A p \in Procs :
    /\ (ret[p] # "Raised" /\ ret'[p] = "Raised") =>
         (_tasks' = _tasks /\ hooks'[p] = hooks[p] /\ pc'[p] = "exit")
    /\ (pc[p] = "exit" /\ ret[p] = "Raised" /\ pc'[p] # "exit") =>
         (_tasks' = _tasks /\ _lock' = NoProc /\ pc'[p] = "idle")

\* C15: cancel_conversation_tasks has no rollback across tasks and no partly
\* updated task: at every point each task is cancelled in full or as it was,
\* and when cancel() raises on a task of the batch the tasks cancelled before
\* it stay CANCELLED and the lock is released.
C15_NoRollback == []PerTask /\ [][RaiseKeeps]_vars

\* cancel() raised on the second task of a batch after the first was cancelled
C15_Witness ==
  \E p \in Procs : \E i \in DOMAIN entry[p].dict :
    /\ Returned(p, {"cancel_conversation_tasks"})
    /\ ret[p] = "Raised"
    /\ i \in Hooked(p)
    /\ Before(p, i).status = PENDING
    /\ Stored(i).status = CANCELLED
    /\ tasks[p] # <<>>
    /\ Head(tasks[p]).status = PENDING

\* the calls that end a task, as the log names them, and the status each
\* logged call sets
TerminalCalls == {"complete", "fail", "cancel", "batch"}

StatusSet(call) ==
  CASE call = "start" -> RUNNING
    [] call = "complete" -> COMPLETED
    [] call = "fail" -> FAILED
    [] call \in {"cancel", "batch"} -> CANCELLED

\* the ids whose latest record (in the initial store or by update_task) had
\* a status in ss; the log of an id starts afresh when it is recorded again
RecordedAs(ss) == {i \in TaskIds : log[i] # <<>> /\ Head(log[i]) \in ss}

\* start, start, complete, complete on task_id, one after another from store d
Scenario(d, task_id) ==
  LET b == Call("start_task", NoTask, task_id, NoId, "none")
      c == Call("complete_task", NoTask, task_id, NoId, "none")
      r1 == Sequential(d, b, now)
      r2 == Sequential(r1.store, b, now)
      r3 == Sequential(r2.store, c, now)
      r4 == Sequential(r3.store, c, now)
  IN  <<r1, r2, r3, r4>>

\* C16: on a task recorded as PENDING, until it is recorded again, in every
\* interleaving at most one start_task returns True and at most one of
\* complete_task, fail_task, cancel_task and the batch succeeds, nothing
\* succeeds after that one, and the stored status is the one the last
\* successful call set; start, start, complete, complete in turn return
\* True, False, True, False and leave RUNNING, RUNNING, COMPLETED, COMPLETED.
C16_OneWinner ==
  /\ \A i \in RecordedAs({PENDING}) :
       LET w == Tail(log[i]) IN
       /\ Cardinality({k \in DOMAIN w : w[k] = "start"}) <= 1
       /\ Cardinality({k \in DOMAIN w : w[k] \in TerminalCalls}) <= 1
       /\ \A k \in DOMAIN w : w[k] \in TerminalCalls => k = Len(w)
       /\ Stored(i).status = IF w = <<>> THEN PENDING ELSE StatusSet(w[Len(w)])
  /\ \A p \in Procs :
       Returned(p, Transitions) =>
         /\ ret[p] = "True" <=> hooks[p] # <<>>
         /\ ret[p] = "True" =>
              LET l == log[op[p].task_id] IN
              l # <<>> /\ <<l[Len(l)], op[p].task_id>> = hooks[p][1]
  /\ \A i \in DOMAIN _tasks.dict :
       (_lock = NoProc /\ Stored(i).status = PENDING) =>
         LET r == Scenario(_tasks, i) IN
         /\ <<r[1].ret, r[2].ret, r[3].ret, r[4].ret>>
              = <<"True", "False", "True", "False">>
         /\ <<_get_task(r[1].store, i).status, _get_task(r[2].store, i).status,
              _get_task(r[3].store, i).status, _get_task(r[4].store, i).status>>
              = <<RUNNING, RUNNING, COMPLETED, COMPLETED>>

\* a second start_task on a task that the first has set RUNNING is refused
C16_Witness ==
  \E p \in Procs :
    /\ Returned(p, {"start_task"})
    /\ log[op[p].task_id] = <<PENDING, "start">>
    /\ ret[p] = "False"
    /\ Stored(op[p].task_id).status = RUNNING

\* the tasks stored as CANCELLED
Cancelled == {i \in DOMAIN _tasks.dict : Stored(i).status = CANCELLED}

\* the calls logged on id i that count as a cancellation to their caller: a
\* True of cancel_task, or one unit of a count of cancel_conversation_tasks
Counted(i) == {k \in DOMAIN log[i] : log[i][k] \in {"cancel", "batch"}}

\* C20: no cancellation is counted twice: for every task recorded with an
\* unfinished status, and until it is recorded again, the True results of
\* cancel_task on it plus the batch counts that include it number 1 if it is
\* stored as CANCELLED and 0 if not; so when no task was finished when
\* recorded, those results add up to the number of tasks stored as
\* CANCELLED. A True of cancel_task and each unit of a returned count is one
\* entry of the log.
C20_CountedOnce ==
  /\ \A i \in RecordedAs(Unfinished) :
       Cardinality(Counted(i)) = IF Stored(i).status = CANCELLED THEN 1 ELSE 0
  /\ (\A i \in TaskIds : log[i] # <<>> => i \in RecordedAs(Unfinished)) =>
       Cardinality({<<i, k>> \in TaskIds \X (1..(MaxCalls + 1)) : k \in Counted(i)})
         = Cardinality(Cancelled)
  /\ \A p \in Procs :
       /\ Returned(p, {"cancel_task"}) =>
            LET l == log[op[p].task_id] IN
            IF ret[p] = "True"
            THEN hooks[p] = <<<<"cancel", op[p].task_id>>>> /\ l[Len(l)] = "cancel"
            ELSE hooks[p] = <<>>
       /\ Returned(p, {"cancel_conversation_tasks"}) =>
            /\ \A i \in Hooked(p) : log[i][Len(log[i])] = "batch"
            /\ cancelled_count[p] = Cardinality(Hooked(p))
            /\ Len(hooks[p]) = Cardinality(Hooked(p))

\* cancel_task and a batch over the same conversation, two tasks cancelled,
\* each counted by one of the two calls
C20_Witness ==
  \E p, q \in Procs :
    /\ p # q
    /\ pc[p] = "idle" /\ pc[q] = "idle"
    /\ ret[p] = "True" /\ ret[q] = "Count" /\ cancelled_count[q] = 1
    /\ \E i, j \in TaskIds :
         /\ log[i] = <<PENDING, "cancel">>
         /\ log[j] = <<PENDING, "batch">>
         /\ Stored(i).conversation_id = Stored(j).conversation_id
    /\ Cardinality(Cancelled) = 2

\* the status stored under a finished id is the same after the step
StatusKept(i) ==
  /\ i \in DOMAIN _tasks'.dict
  /\ _get_task(_tasks', i).status = Stored(i).status

\* the step is the write of an update_task for id i
Rerecords(i) ==
  \E p \in Procs :
    /\ pc[p] = "stamp" /\ pc'[p] = "exit"
    /\ op[p].kind = "update_task" /\ op[p].task.task_id = i

FinishedIds == {i \in DOMAIN _tasks.dict : Stored(i).status \in Finished}

\* C17 as stated: once the status stored under an id is COMPLETED, FAILED or
\* CANCELLED it is the same in every later state, whatever call follows,
\* update_task included.
C17_FinishedForever == [][\A i \in FinishedIds : StatusKept(i)]_vars

\* C17, amended: once the status stored under an id is COMPLETED, FAILED or
\* CANCELLED, no start_task, complete_task, fail_task, cancel_task or
\* cancel_conversation_tasks changes it, nor an update_task for another id;
\* it changes only by an update_task for that id.
C17_FinishedUntilRerecorded ==
  [][\A i \in FinishedIds : StatusKept(i) \/ Rerecords(i)]_vars

\* a task completed by one call has been passed over by a batch on its
\* conversation
C17_Witness ==
  \E p \in Procs : \E i \in DOMAIN _tasks.dict :
    /\ Returned(p, {"cancel_conversation_tasks"})
    /\ log[i] = <<PENDING, "complete">>
    /\ Stored(i).conversation_id = op[p].conversation_id
    /\ Stored(i).status = COMPLETED
    /\ hooks[p] = <<>>

\* every key maps to a record with that task_id, and the key list holds each
\* key of the dict once
KeysMatch ==
  /\ \A k \in DOMAIN _tasks.dict : _tasks.dict[k].task_id = k
  /\ {_tasks.keys[n] : n \in DOMAIN _tasks.keys} = DOMAIN _tasks.dict
  /\ Len(_tasks.keys) = Cardinality(DOMAIN _tasks.dict)

\* a call on an id, or on a conversation, that the store does not hold
\* leaves the store as it found it
UnknownUntouched ==
  \A p \in Procs :
    /\ (pc[p] \in InBody /\ op[p].kind \in Transitions
          /\ op[p].task_id \notin DOMAIN entry[p].dict) =>
         (_tasks = entry[p] /\ (pc[p] = "exit" => ret[p] = "False"))
    /\ (pc[p] \in InBody /\ op[p].kind = "cancel_conversation_tasks"
          /\ Matching(entry[p], op[p].conversation_id) = {}) =>
         (_tasks = entry[p] /\ (pc[p] = "exit" => ret[p] = "Count"))

\* a step that changes the key set is the write of an update_task, and the
\* key it adds is the task_id of the task given
OnlyRecordAdds ==
  DOMAIN _tasks'.dict # DOMAIN _tasks.dict =>
    \E p \in Procs :
      /\ pc[p] = "stamp" /\ pc'[p] = "exit"
      /\ op[p].kind = "update_task"
      /\ DOMAIN _tasks'.dict = DOMAIN _tasks.dict \cup {op[p].task.task_id}

\* C18: only update_task adds task ids: start_task, complete_task, fail_task,
\* cancel_task and cancel_conversation_tasks never create a record, so a call
\* with an id or a conversation id the store does not hold leaves the key
\* set as it was, and every key k maps to a record whose task_id is k.
C18_OnlyRecordAdds == [](KeysMatch /\ UnknownUntouched) /\ [][OnlyRecordAdds]_vars

\* complete_task on an id that a non-empty store does not hold
C18_Witness ==
  \E p \in Procs :
    /\ Returned(p, {"complete_task"})
    /\ entry[p].keys # <<>>
    /\ op[p].task_id \notin DOMAIN entry[p].dict
    /\ ret[p] = "False"
    /\ DOMAIN _tasks.dict = DOMAIN entry[p].dict

\* C19: cancel_conversation_tasks is idempotent: called again on the store
\* it has left, with nothing in between, it returns 0 and leaves that store;
\* and a call that finds every task of its conversation finished, or none
\* stored, returns 0 and leaves the store as it found it.
C19_BatchIdempotent ==
  \A p \in Procs :
    Returned(p, {"cancel_conversation_tasks"}) =>
      LET again == Sequential(_tasks, op[p], now) IN
      /\ again = [store |-> _tasks, ret |-> "Count", count |-> 0]
      /\ (\A i \in Matching(entry[p], op[p].conversation_id) :
            entry[p].dict[i].status \in Finished) =>
           (ret[p] = "Count" /\ cancelled_count[p] = 0 /\ _tasks = entry[p])

\* a second batch on a conversation whose task a first batch has cancelled
C19_Witness ==
  \E p, q \in Procs : \E i \in DOMAIN _tasks.dict :
    /\ p # q
    /\ pc[p] = "idle" /\ ret[p] = "Count" /\ cancelled_count[p] = 1
    /\ Returned(q, {"cancel_conversation_tasks"})
    /\ Stored(i).conversation_id = op[q].conversation_id
    /\ log[i] = <<PENDING, "batch">>
    /\ Before(q, i).status = CANCELLED
    /\ cancelled_count[q] = 0
    /\ _tasks = entry[q]
====
